---------------------------- MODULE Spec2Model ----------------------------
(***************************************************************************)
(* Sentiment Analysis API: the Flask service of app.py and main.py.        *)
(*                                                                         *)
(* Four routes (GET /, POST /analyze, GET /analyze, GET /health) in front  *)
(* of one process-wide classifier, sentiment_analyzer.  The classifier and *)
(* Flask's request parsing are libraries outside the repository: the       *)
(* classifier is an oracle that answers a text with a result sequence or   *)
(* an exception, get_json follows werkzeug's documented behaviour.         *)
(*                                                                         *)
(* Spec    one worker serving requests one after another, the classifier   *)
(*         free to answer anything; every request is served by app.py and  *)
(*         by main.py side by side.                                        *)
(* SpecDet two threads running app.py's handlers interleaved, split at the *)
(*         blocking classifier call, over a deterministic classifier.      *)
(***************************************************************************)
EXTENDS Naturals, Sequences, FiniteSets

(***************************************************************************)
(* Bounds of the model.                                                    *)
(***************************************************************************)
\* longest text a request carries
MaxLen == 2
\* longest result sequence the classifier returns
MaxResults == 2
\* a score is ScoreNum / ScoreDen, a binary fraction as a float is
ScoreDen == 64

\* round(score, 4): the digits kept
Digits == 4
Scale == 10 ^ Digits

(***************************************************************************)
(* Text: a Python str as a sequence of characters.                         *)
(***************************************************************************)
Whitespace == {" "}
Chars == {" ", "a"}
Text == UNION {[1..n -> Chars] : n \in 0..MaxLen}

RECURSIVE lstrip(_)
lstrip(s) ==
    IF s = <<>> THEN s
    ELSE IF Head(s) \in Whitespace THEN lstrip(Tail(s)) ELSE s

RECURSIVE rstrip(_)
rstrip(s) ==
    IF s = <<>> THEN s
    ELSE IF s[Len(s)] \in Whitespace THEN rstrip(SubSeq(s, 1, Len(s) - 1)) ELSE s

\* str.strip() with no argument
strip(s) == rstrip(lstrip(s))

\* the str 'text', the key both handlers look up
TextKey == <<"t", "e", "x", "t">>

\* sub in s, for two str
IsSubstring(sub, s) ==
    \E i \in 0..Len(s) :
        /\ i + Len(sub) <= Len(s)
        /\ SubSeq(s, i + 1, i + Len(sub)) = sub

(***************************************************************************)
(* JSON values as json.loads returns them.  A scalar is [type, num, chars];*)
(* a document adds the items of a list and the fields of a dict.           *)
(***************************************************************************)
JNull == [type |-> "null", num |-> 0, chars |-> <<>>]
JBool(b) == [type |-> "bool", num |-> IF b THEN 1 ELSE 0, chars |-> <<>>]
JNum(n) == [type |-> "number", num |-> n, chars |-> <<>>]
JStr(s) == [type |-> "string", num |-> 0, chars |-> s]
\* a list or a dict met where a scalar is expected (only its type matters there)
JNested(t) == [type |-> t, num |-> 0, chars |-> <<>>]

Doc(v) == [type |-> v.type, num |-> v.num, chars |-> v.chars,
           items |-> <<>>, fields |-> <<>>]
DocList(items) == [type |-> "list", num |-> 0, chars |-> <<>>,
                   items |-> items, fields |-> <<>>]
DocDict(fields) == [type |-> "dict", num |-> 0, chars |-> <<>>,
                    items |-> <<>>, fields |-> fields]
Field(k, v) == [key |-> k, value |-> v]

\* Python's type names, as they appear in exception messages
PyName(type) ==
    CASE type = "null" -> "NoneType"
      [] type = "bool" -> "bool"
      [] type = "number" -> "int"
      [] type = "string" -> "str"
      [] type = "list" -> "list"
      [] type = "dict" -> "dict"

\* bool(data) is False
Falsy(d) ==
    CASE d.type = "null" -> TRUE
      [] d.type = "bool" -> d.num = 0
      [] d.type = "number" -> d.num = 0
      [] d.type = "string" -> d.chars = <<>>
      [] d.type = "list" -> d.items = <<>>
      [] d.type = "dict" -> d.fields = <<>>

\* 'text' in data is defined for a str, a list and a dict only
SupportsIn(d) == d.type \in {"string", "list", "dict"}

\* 'text' in data
HasText(d) ==
    CASE d.type = "string" -> IsSubstring(TextKey, d.chars)
      [] d.type = "list" -> \E i \in 1..Len(d.items) : d.items[i] = JStr(TextKey)
      [] d.type = "dict" -> \E i \in 1..Len(d.fields) : d.fields[i].key = TextKey
      [] OTHER -> FALSE

\* data['text'] of a dict that has the key (json.loads keeps the last duplicate)
GetText(d) ==
    LET at == {i \in 1..Len(d.fields) : d.fields[i].key = TextKey}
        last == CHOOSE i \in at : \A j \in at : j <= i
    IN d.fields[last].value

(***************************************************************************)
(* Requests.                                                               *)
(***************************************************************************)
\* the body of a POST: none (no JSON content type), JSON that does not
\* parse, or a JSON document
AbsentBody == [kind |-> "absent", doc |-> Doc(JNull)]
MalformedBody == [kind |-> "malformed", doc |-> Doc(JNull)]
JsonBody(d) == [kind |-> "json", doc |-> d]
TextBody(t) == JsonBody(DocDict(<<Field(TextKey, JStr(t))>>))

OtherKey == <<"i", "d">>
Docs ==
    {Doc(JNull), Doc(JBool(FALSE)), Doc(JBool(TRUE)), Doc(JNum(0)), Doc(JNum(5)),
     Doc(JStr(<<>>)), Doc(JStr(<<"a">>)), Doc(JStr(TextKey)),
     Doc(JStr(TextKey \o <<"s">>)),
     DocList(<<>>), DocList(<<JStr(<<"a">>)>>), DocList(<<JStr(TextKey)>>),
     DocDict(<<>>), DocDict(<<Field(OtherKey, JStr(<<"a">>))>>),
     DocDict(<<Field(TextKey, JNull)>>), DocDict(<<Field(TextKey, JNum(5))>>),
     DocDict(<<Field(TextKey, JNested("list"))>>)}
    \cup {DocDict(<<Field(TextKey, JStr(t))>>) : t \in Text}
    \cup {DocDict(<<Field(TextKey, JStr(<<"a">>)), Field(TextKey, JStr(t))>>) :
            t \in {u \in Text : Len(u) = MaxLen}}
Bodies == {AbsentBody, MalformedBody} \cup {JsonBody(d) : d \in Docs}

\* the query string of a GET: the text parameter, when given
NoQuery == [given |-> FALSE, text |-> <<>>]
TextQuery(t) == [given |-> TRUE, text |-> t]
Queries == {NoQuery} \cup {TextQuery(t) : t \in Text}

Request(route, body, query) == [route |-> route, body |-> body, query |-> query]
(***************************************************************************)
(* Exceptions and the framework's request parsing.                         *)
(***************************************************************************)
NoError == [cls |-> "", msg |-> ""]
Error(cls, msg) == [cls |-> cls, msg |-> msg]
\* the classes `except Exception` catches, among those that arise here
ExceptionClasses == {"UnsupportedMediaType", "BadRequest", "TypeError",
                     "AttributeError", "RuntimeError", "IndexError"}

\* Flask before 2.1 returns None for a body without a JSON content type,
\* Flask 2.1 and later raises 415 for it; the repository pins no version
FlaskBuilds == {"flask<2.1", "flask>=2.1"}

UnsupportedMediaType ==
    Error("UnsupportedMediaType", "415 Unsupported Media Type: Did not attempt to load JSON data because the request Content-Type was not 'application/json'.")
BadRequest ==
    Error("BadRequest", "400 Bad Request: The browser (or proxy) sent a request that this server could not understand.")

\* request.get_json(): [error, value]
get_json(body, build) ==
    CASE body.kind = "absent" ->
            IF build = "flask<2.1" THEN [error |-> NoError, value |-> Doc(JNull)]
            ELSE [error |-> UnsupportedMediaType, value |-> Doc(JNull)]
      [] body.kind = "malformed" -> [error |-> BadRequest, value |-> Doc(JNull)]
      [] body.kind = "json" -> [error |-> NoError, value |-> body.doc]

\* request.args.get('text', '')
args_get(query) == IF query.given THEN query.text ELSE <<>>

NotIterable(d) ==
    Error("TypeError", "argument of type '" \o PyName(d.type) \o "' is not iterable")
BadIndex(d) ==
    IF d.type = "string" THEN Error("TypeError", "string indices must be integers")
    ELSE Error("TypeError", "list indices must be integers or slices, not str")
NoStrip(v) ==
    Error("AttributeError", "'" \o PyName(v.type) \o "' object has no attribute 'strip'")

(***************************************************************************)
(* The classifier: sentiment_analyzer(text) answers with a sequence of     *)
(* [label, score] or raises.                                               *)
(***************************************************************************)
Labels == {"positive", "negative"}
\* numerators over ScoreDen: exact, below half, a tie whose even neighbour is
\* below, above half, a tie whose even neighbour is above, and 1.0
ScoreNums == {0, 1, 2, 3, 6, ScoreDen}
Entries == [label : Labels, score : ScoreNums]
ResultSeqs == UNION {[1..n -> Entries] : n \in 0..MaxResults}

NoOutcome == [kind |-> "none", error |-> NoError, results |-> <<>>]
Returns(r) == [kind |-> "results", error |-> NoError, results |-> r]
Raises(e) == [kind |-> "raise", error |-> e, results |-> <<>>]
ClassifierErrors ==
    {Error("RuntimeError", "DefaultCPUAllocator: not enough memory"),
     Error("IndexError", "index out of range in self")}
Outcomes == {Returns(r) : r \in ResultSeqs} \cup {Raises(e) : e \in ClassifierErrors}

\* round(score, 4) that cuts the digits off instead
round_down(num) == (num * Scale) \div ScoreDen

\* round(score, 4) of the float num / ScoreDen, in units of 10^-4: the nearest
\* multiple, a tie going to the even one
round(num) ==
    LET q == (num * Scale) \div ScoreDen
        r == (num * Scale) % ScoreDen
    IN IF 2 * r < ScoreDen THEN q
       ELSE IF 2 * r > ScoreDen THEN q + 1
       ELSE IF q % 2 = 0 THEN q ELSE q + 1

(***************************************************************************)
(* Responses: jsonify(...) and a status.  A body is a JSON object: its     *)
(* top-level keys, its string-valued members (nested ones by path), and    *)
(* the two members of an analysis.                                         *)
(***************************************************************************)
Body(keys, strs, text, results) ==
    [keys |-> keys, strs |-> strs, input_text |-> text, sentiment_results |-> results]
Response(status, body) == [status |-> status, body |-> body]
NoResponse == Response(0, Body({}, {}, <<>>, <<>>))

ErrorBody(msg) == Body({"error"}, {<<"error", msg>>}, <<>>, <<>>)
AnalysisBody(text, results) ==
    Body({"input_text", "sentiment_results"}, {}, text, results)

MsgNoTextKey == "Please provide text in JSON format with \"text\" key"
MsgEmpty == "Text cannot be empty"
MsgNoTextParam == "Please provide text using the \"text\" query parameter"
MsgWrapper == "An error occurred during sentiment analysis: "
ModelId == "cardiffnlp/twitter-roberta-base-sentiment-latest"

\* where a handler's try block stands: it has returned a response, raised,
\* or is about to call the classifier with text
Returned(resp) == [kind |-> "return", resp |-> resp, error |-> NoError, text |-> <<>>]
Raised(e) == [kind |-> "raise", resp |-> NoResponse, error |-> e, text |-> <<>>]
Calling(t) == [kind |-> "call", resp |-> NoResponse, error |-> NoError, text |-> t]

\* what a handler did with a request: its response, the arguments of its
\* classifier calls in order, and the exception its try block raised, if any
Served(resp, calls, error) == [resp |-> resp, calls |-> calls, error |-> error]
NotServed == Served(NoResponse, <<>>, NoError)

(***************************************************************************)
(* app.py                                                                 *)
(***************************************************************************)
\* home(): the API information document
app_home ==
    Response(200,
        Body({"message", "version", "endpoints", "usage_examples"},
             {<<"message", "Sentiment Analysis API">>,
              <<"version", "1.0">>,
              <<"endpoints.POST /analyze", "Analyze sentiment from JSON payload">>,
              <<"endpoints.GET /analyze", "Analyze sentiment from query parameter">>,
              <<"endpoints.GET /health", "Health check">>,
              <<"usage_examples.POST", "curl -X POST https://your-app.onrender.com/analyze -H \"Content-Type: application/json\" -d '{\"text\":\"I love this!\"}'">>,
              <<"usage_examples.GET", "curl \"https://your-app.onrender.com/analyze?text=I%20love%20this!\"">>,
              <<"usage_examples.health", "curl https://your-app.onrender.com/health">>},
             <<>>, <<>>))

\* analyze_sentiment() reading the key with data.get('text', '') and no check
\* that it is there
app_analyze_sentiment_validate_get_default(body, build) ==
    LET got == get_json(body, build)
        data == got.value
    IN IF got.error # NoError THEN Raised(got.error)
       ELSE IF data.type # "dict"
            THEN Raised(Error("AttributeError",
                    "'" \o PyName(data.type) \o "' object has no attribute 'get'"))
       ELSE IF ~HasText(data) THEN Returned(Response(400, ErrorBody(MsgEmpty)))
       ELSE LET text == GetText(data)
            IN IF text.type # "string" THEN Raised(NoStrip(text))
               ELSE IF strip(text.chars) = <<>>
                    THEN Returned(Response(400, ErrorBody(MsgEmpty)))
                    ELSE Calling(text.chars)

\* analyze_sentiment(), from get_json() to the classifier call
app_analyze_sentiment_validate(body, build) ==
    LET got == get_json(body, build)
        data == got.value
    IN IF got.error # NoError THEN Raised(got.error)
       ELSE IF Falsy(data) THEN Returned(Response(400, ErrorBody(MsgNoTextKey)))
       ELSE IF ~SupportsIn(data) THEN Raised(NotIterable(data))
       ELSE IF ~HasText(data) THEN Returned(Response(400, ErrorBody(MsgNoTextKey)))
       ELSE IF data.type # "dict" THEN Raised(BadIndex(data))
       ELSE LET text == GetText(data)
            IN IF text.type # "string" THEN Raised(NoStrip(text))
               ELSE IF strip(text.chars) = <<>>
                    THEN Returned(Response(400, ErrorBody(MsgEmpty)))
                    ELSE Calling(text.chars)

\* analyze_sentiment() echoing the trimmed text as input_text
app_analyze_sentiment_format_stripped(text, outcome) ==
    IF outcome.kind = "raise" THEN Raised(outcome.error)
    ELSE Returned(Response(200, AnalysisBody(strip(text),
            [i \in 1..Len(outcome.results) |->
                [label |-> outcome.results[i].label,
                 score |-> round(outcome.results[i].score)]])))

\* analyze_sentiment(), from the classifier's answer to the response
app_analyze_sentiment_format(text, outcome) ==
    IF outcome.kind = "raise" THEN Raised(outcome.error)
    ELSE Returned(Response(200, AnalysisBody(text,
            [i \in 1..Len(outcome.results) |->
                [label |-> outcome.results[i].label,
                 score |-> round(outcome.results[i].score)]])))

\* analyze_sentiment_get() testing `not text` without strip()
app_analyze_sentiment_get_validate_nostrip(query) ==
    LET text == args_get(query)
    IN IF text = <<>>
       THEN Returned(Response(400, ErrorBody(MsgNoTextParam)))
       ELSE Calling(text)

\* analyze_sentiment_get(), from the query string to the classifier call
app_analyze_sentiment_get_validate(query) ==
    LET text == args_get(query)
    IN IF strip(text) = <<>>
       THEN Returned(Response(400, ErrorBody(MsgNoTextParam)))
       ELSE Calling(text)

\* analyze_sentiment_get() cutting the score's digits off instead of rounding
app_analyze_sentiment_get_format_truncating(text, outcome) ==
    IF outcome.kind = "raise" THEN Raised(outcome.error)
    ELSE Returned(Response(200, AnalysisBody(text,
            [i \in 1..Len(outcome.results) |->
                [label |-> outcome.results[i].label,
                 score |-> round_down(outcome.results[i].score)]])))

\* analyze_sentiment_get(), from the classifier's answer to the response
app_analyze_sentiment_get_format(text, outcome) ==
    IF outcome.kind = "raise" THEN Raised(outcome.error)
    ELSE Returned(Response(200, AnalysisBody(text,
            [i \in 1..Len(outcome.results) |->
                [label |-> outcome.results[i].label,
                 score |-> round(outcome.results[i].score)]])))

\* an except clause that answers without the exception's message
app_except_no_message(e) ==
    IF e.cls \in ExceptionClasses THEN Response(500, ErrorBody(MsgWrapper))
    ELSE NoResponse

\* an except clause that leaves the status out, which Flask sends as 200
app_except_default_status(e) ==
    IF e.cls \in ExceptionClasses THEN Response(200, ErrorBody(MsgWrapper \o e.msg))
    ELSE NoResponse

\* except Exception as e: the 500 response (both handlers have the same clause)
app_except(e) ==
    IF e.cls \in ExceptionClasses THEN Response(500, ErrorBody(MsgWrapper \o e.msg))
    ELSE NoResponse

\* health_check() that probes the classifier first
app_health_check_probing(outcome) ==
    IF outcome.kind = "raise"
    THEN Served(Response(500, ErrorBody(MsgWrapper \o outcome.error.msg)), <<<<"a">>>>, NoError)
    ELSE Served(Response(200,
            Body({"status", "service", "model"},
                 {<<"status", "healthy">>, <<"service", "Sentiment Analysis API">>,
                  <<"model", ModelId>>}, <<>>, <<>>)), <<<<"a">>>>, NoError)

\* health_check()
app_health_check(outcome) ==
    Served(Response(200,
            Body({"status", "service", "model"},
                 {<<"status", "healthy">>, <<"service", "Sentiment Analysis API">>,
                  <<"model", ModelId>>}, <<>>, <<>>)), <<>>, NoError)

\* the end of a handler: the response its try block returned, or the except
\* clause's for what it raised
app_finish(after, calls) ==
    IF after.kind = "raise" THEN Served(app_except(after.error), calls, after.error)
    ELSE Served(after.resp, calls, NoError)

\* analyze_sentiment(), whole
app_analyze_sentiment(body, build, outcome) ==
    LET at == app_analyze_sentiment_validate(body, build)
    IN IF at.kind = "call"
       THEN app_finish(app_analyze_sentiment_format(at.text, outcome), <<at.text>>)
       ELSE app_finish(at, <<>>)

\* analyze_sentiment_get(), whole
app_analyze_sentiment_get(query, outcome) ==
    LET at == app_analyze_sentiment_get_validate(query)
    IN IF at.kind = "call"
       THEN app_finish(app_analyze_sentiment_get_format(at.text, outcome), <<at.text>>)
       ELSE app_finish(at, <<>>)

(***************************************************************************)
(* main.py                                                                 *)
(***************************************************************************)
\* home(): the API information document
main_home ==
    Response(200,
        Body({"message", "version", "endpoints", "usage_examples"},
             {<<"message", "Sentiment Analysis API">>,
              <<"version", "1.0">>,
              <<"endpoints.POST /analyze", "Analyze sentiment from JSON payload">>,
              <<"endpoints.GET /analyze", "Analyze sentiment from query parameter">>,
              <<"endpoints.GET /health", "Health check">>,
              <<"usage_examples.POST", "curl -X POST http://localhost:5000/analyze -H \"Content-Type: application/json\" -d '{\"text\":\"I love this!\"}'">>,
              <<"usage_examples.GET", "curl \"http://localhost:5000/analyze?text=I%20love%20this!\"">>,
              <<"usage_examples.health", "curl http://localhost:5000/health">>},
             <<>>, <<>>))

\* analyze_sentiment(), from get_json() to the classifier call
main_analyze_sentiment_validate(body, build) ==
    LET got == get_json(body, build)
        data == got.value
    IN IF got.error # NoError THEN Raised(got.error)
       ELSE IF Falsy(data) THEN Returned(Response(400, ErrorBody(MsgNoTextKey)))
       ELSE IF ~SupportsIn(data) THEN Raised(NotIterable(data))
       ELSE IF ~HasText(data) THEN Returned(Response(400, ErrorBody(MsgNoTextKey)))
       ELSE IF data.type # "dict" THEN Raised(BadIndex(data))
       ELSE LET text == GetText(data)
            IN IF text.type # "string" THEN Raised(NoStrip(text))
               ELSE IF strip(text.chars) = <<>>
                    THEN Returned(Response(400, ErrorBody(MsgEmpty)))
                    ELSE Calling(text.chars)

\* analyze_sentiment() echoing the trimmed text as input_text
main_analyze_sentiment_format_stripped(text, outcome) ==
    IF outcome.kind = "raise" THEN Raised(outcome.error)
    ELSE Returned(Response(200, AnalysisBody(strip(text),
            [i \in 1..Len(outcome.results) |->
                [label |-> outcome.results[i].label,
                 score |-> round(outcome.results[i].score)]])))

\* analyze_sentiment(), from the classifier's answer to the response
main_analyze_sentiment_format(text, outcome) ==
    IF outcome.kind = "raise" THEN Raised(outcome.error)
    ELSE Returned(Response(200, AnalysisBody(text,
            [i \in 1..Len(outcome.results) |->
                [label |-> outcome.results[i].label,
                 score |-> round(outcome.results[i].score)]])))

\* analyze_sentiment_get(), from the query string to the classifier call
main_analyze_sentiment_get_validate(query) ==
    LET text == args_get(query)
    IN IF strip(text) = <<>>
       THEN Returned(Response(400, ErrorBody(MsgNoTextParam)))
       ELSE Calling(text)

\* analyze_sentiment_get(), from the classifier's answer to the response
main_analyze_sentiment_get_format(text, outcome) ==
    IF outcome.kind = "raise" THEN Raised(outcome.error)
    ELSE Returned(Response(200, AnalysisBody(text,
            [i \in 1..Len(outcome.results) |->
                [label |-> outcome.results[i].label,
                 score |-> round(outcome.results[i].score)]])))

\* except Exception as e: the 500 response (both handlers have the same clause)
main_except(e) ==
    IF e.cls \in ExceptionClasses THEN Response(500, ErrorBody(MsgWrapper \o e.msg))
    ELSE NoResponse

\* health_check()
main_health_check(outcome) ==
    Served(Response(200,
            Body({"status", "service", "model"},
                 {<<"status", "healthy">>, <<"service", "Sentiment Analysis API">>,
                  <<"model", ModelId>>}, <<>>, <<>>)), <<>>, NoError)

\* the end of a handler: the response its try block returned, or the except
\* clause's for what it raised
main_finish(after, calls) ==
    IF after.kind = "raise" THEN Served(main_except(after.error), calls, after.error)
    ELSE Served(after.resp, calls, NoError)

\* analyze_sentiment(), whole
main_analyze_sentiment(body, build, outcome) ==
    LET at == main_analyze_sentiment_validate(body, build)
    IN IF at.kind = "call"
       THEN main_finish(main_analyze_sentiment_format(at.text, outcome), <<at.text>>)
       ELSE main_finish(at, <<>>)

\* analyze_sentiment_get(), whole
main_analyze_sentiment_get(query, outcome) ==
    LET at == main_analyze_sentiment_get_validate(query)
    IN IF at.kind = "call"
       THEN main_finish(main_analyze_sentiment_get_format(at.text, outcome), <<at.text>>)
       ELSE main_finish(at, <<>>)

(***************************************************************************)
(* State.                                                                  *)
(***************************************************************************)
Files == {"app.py", "main.py"}
\* the request threads of SpecDet
Workers == {"t1", "t2"}

VARIABLES
    flask,      \* the Flask build the service runs on
    model,      \* sentiment_analyzer: the pipeline loaded at start-up
    exchange,   \* Spec: the request being served and what each file answers
    mirror,     \* Spec: the exchange whose text `exchange` submits again
    pc,         \* SpecDet: where each thread is: idle, calling, done
    req,        \* SpecDet: each thread's request (Flask's request context)
    locals,     \* SpecDet: each handler invocation's local variable text
    out         \* SpecDet: what each thread's handler did, once done

vars == <<flask, model, exchange, mirror, pc, req, locals, out>>

NoRequest == Request("", AbsentBody, NoQuery)
Exchange(r, o, served) == [request |-> r, oracle |-> o, served |-> served]
NoExchange == Exchange(NoRequest, NoOutcome, [f \in Files |-> NotServed])

\* the str a request to /analyze submits, when it submits one
HasSubject(r) ==
    \/ r.route = "GET /analyze"
    \/ /\ r.route = "POST /analyze"
       /\ r.body.kind = "json"
       /\ r.body.doc.type = "dict"
       /\ HasText(r.body.doc)
       /\ GetText(r.body.doc).type = "string"
Subject(r) ==
    IF r.route = "GET /analyze" THEN args_get(r.query)
    ELSE GetText(r.body.doc).chars

\* The loaded pipeline is opaque.  A model is described by how it answers:
\* "any" may answer a call with any outcome, "broken" raises on every call,
\* "det" is a function of the text, answering `hit` at the text `at` and `miss`
\* at every other.
Model(kind, at, hit, miss) == [kind |-> kind, at |-> at, hit |-> hit, miss |-> miss]
AnyModel == Model("any", <<>>, NoOutcome, NoOutcome)
BrokenModel == Model("broken", <<>>, NoOutcome, NoOutcome)

\* sentiment_analyzer(text): the outcomes the call can have
sentiment_analyzer(t) ==
    CASE model.kind = "any" -> Outcomes
      [] model.kind = "broken" -> {Raises(e) : e \in ClassifierErrors}
      [] model.kind = "det" -> {IF t = model.at THEN model.hit ELSE model.miss}

\* what the classifier may answer when asked about the request's text
Oracle(r) == IF HasSubject(r) THEN sentiment_analyzer(Subject(r)) ELSE {NoOutcome}

\* the file's handler for the request's route
Serve(f, r, o) ==
    CASE r.route = "GET /" ->
            Served(IF f = "app.py" THEN app_home ELSE main_home, <<>>, NoError)
      [] r.route = "POST /analyze" ->
            IF f = "app.py" THEN app_analyze_sentiment(r.body, flask, o)
            ELSE main_analyze_sentiment(r.body, flask, o)
      [] r.route = "GET /analyze" ->
            IF f = "app.py" THEN app_analyze_sentiment_get(r.query, o)
            ELSE main_analyze_sentiment_get(r.query, o)
      [] r.route = "GET /health" ->
            IF f = "app.py" THEN app_health_check(o) ELSE main_health_check(o)

(***************************************************************************)
(* Spec: requests served one after another.                                *)
(***************************************************************************)
ThreadsIdle ==
    /\ pc = [w \in Workers |-> "idle"]
    /\ req = [w \in Workers |-> NoRequest]
    /\ locals = [w \in Workers |-> <<>>]
    /\ out = [w \in Workers |-> NotServed]

Init ==
    /\ flask \in FlaskBuilds
    /\ model \in {AnyModel, BrokenModel}
    /\ exchange = NoExchange
    /\ mirror = NoExchange
    /\ ThreadsIdle

\* the worker is free: the last response has been sent
Free == exchange = NoExchange

Handle(r, o) ==
    /\ exchange' = Exchange(r, o, [f \in Files |-> Serve(f, r, o)])
    /\ UNCHANGED <<flask, model, mirror, pc, req, locals, out>>

\* GET /
Home ==
    /\ Free
    /\ Handle(Request("GET /", AbsentBody, NoQuery), NoOutcome)

\* POST /analyze
AnalyzeSentiment ==
    /\ Free
    /\ \E b \in Bodies :
        LET r == Request("POST /analyze", b, NoQuery)
        IN \E o \in Oracle(r) : Handle(r, o)

\* GET /analyze
AnalyzeSentimentGet ==
    /\ Free
    /\ \E q \in Queries :
        LET r == Request("GET /analyze", AbsentBody, q)
        IN \E o \in Oracle(r) : Handle(r, o)

\* GET /health, whatever the classifier would answer if it were asked
HealthCheck ==
    /\ Free
    /\ \E o \in sentiment_analyzer(<<"a">>) :
        Handle(Request("GET /health", AbsentBody, NoQuery), o)

\* the client submits the text of the exchange again by the other route, and
\* the classifier answers as it did
Resubmit ==
    /\ HasSubject(exchange.request)
    /\ LET t == Subject(exchange.request)
           r == IF exchange.request.route = "POST /analyze"
                THEN Request("GET /analyze", AbsentBody, TextQuery(t))
                ELSE Request("POST /analyze", TextBody(t), NoQuery)
       IN /\ mirror' = exchange
          /\ exchange' = Exchange(r, exchange.oracle,
                                  [f \in Files |-> Serve(f, r, exchange.oracle)])
    /\ UNCHANGED <<flask, model, pc, req, locals, out>>

\* the response is sent and the request's data discarded
Respond ==
    /\ exchange # NoExchange
    /\ exchange' = NoExchange
    /\ mirror' = NoExchange
    /\ UNCHANGED <<flask, model, pc, req, locals, out>>

Next ==
    \/ Home
    \/ AnalyzeSentiment
    \/ AnalyzeSentimentGet
    \/ HealthCheck
    \/ Resubmit
    \/ Respond

Spec == Init /\ [][Next]_vars

(***************************************************************************)
(* SpecDet: two request threads run app.py's handlers at once.  A handler  *)
(* blocks in the classifier call only, so a handler is two steps: up to    *)
(* the call, and from the call to its response.  The classifier is a       *)
(* function of the text.                                                   *)
(***************************************************************************)
DetHits == {Returns(<<[label |-> "positive", score |-> 3]>>),
            Raises(Error("IndexError", "index out of range in self"))}
DetMisses == {Returns(<<[label |-> "negative", score |-> 6]>>),
              Returns(<<[label |-> "positive", score |-> 3]>>)}
DetModels == {Model("det", p, a, b) : p \in Text, a \in DetHits, b \in DetMisses}

InitDet ==
    /\ flask \in FlaskBuilds
    /\ model \in DetModels
    /\ exchange = NoExchange
    /\ mirror = NoExchange
    /\ ThreadsIdle

\* one frame of locals for all invocations, as module-level variables are
frame_shared(w) == "t1"

\* the frame holding the locals of w's handler invocation: its own
frame(w) == w

Done(w, served) ==
    /\ pc' = [pc EXCEPT ![w] = "done"]
    /\ out' = [out EXCEPT ![w] = served]

\* the thread stops at the classifier call with its local text assigned
Block(w, text) ==
    /\ pc' = [pc EXCEPT ![w] = "calling"]
    /\ locals' = [locals EXCEPT ![frame(w)] = text]
    /\ UNCHANGED out

\* a thread takes GET /
T_Home(w) ==
    /\ pc[w] = "idle"
    /\ req' = [req EXCEPT ![w] = Request("GET /", AbsentBody, NoQuery)]
    /\ Done(w, Served(app_home, <<>>, NoError))
    /\ UNCHANGED <<flask, model, exchange, mirror, locals>>

\* a thread takes GET /health
T_HealthCheck(w) ==
    /\ pc[w] = "idle"
    /\ req' = [req EXCEPT ![w] = Request("GET /health", AbsentBody, NoQuery)]
    /\ \E o \in sentiment_analyzer(<<"a">>) : Done(w, app_health_check(o))
    /\ UNCHANGED <<flask, model, exchange, mirror, locals>>

\* a thread takes POST /analyze and runs analyze_sentiment() up to the call
T_AnalyzeSentiment(w) ==
    /\ pc[w] = "idle"
    /\ \E b \in Bodies :
        LET at == app_analyze_sentiment_validate(b, flask)
        IN /\ req' = [req EXCEPT ![w] = Request("POST /analyze", b, NoQuery)]
           /\ IF at.kind = "call" THEN Block(w, at.text)
              ELSE Done(w, app_finish(at, <<>>)) /\ UNCHANGED locals
    /\ UNCHANGED <<flask, model, exchange, mirror>>

\* a thread takes GET /analyze and runs analyze_sentiment_get() up to the call
T_AnalyzeSentimentGet(w) ==
    /\ pc[w] = "idle"
    /\ \E q \in Queries :
        LET at == app_analyze_sentiment_get_validate(q)
        IN /\ req' = [req EXCEPT ![w] = Request("GET /analyze", AbsentBody, q)]
           /\ IF at.kind = "call" THEN Block(w, at.text)
              ELSE Done(w, app_finish(at, <<>>)) /\ UNCHANGED locals
    /\ UNCHANGED <<flask, model, exchange, mirror>>

\* the classifier is called with the local text and the handler runs to its end
T_Classify(w) ==
    /\ pc[w] = "calling"
    /\ LET text == locals[frame(w)]
       IN \E o \in sentiment_analyzer(text) :
            Done(w, IF req[w].route = "POST /analyze"
                    THEN app_finish(app_analyze_sentiment_format(text, o), <<text>>)
                    ELSE app_finish(app_analyze_sentiment_get_format(text, o), <<text>>))
    /\ UNCHANGED <<flask, model, exchange, mirror, req, locals>>

\* the response is sent; the thread is free again
T_Respond(w) ==
    /\ pc[w] = "done"
    /\ pc' = [pc EXCEPT ![w] = "idle"]
    /\ req' = [req EXCEPT ![w] = NoRequest]
    /\ out' = [out EXCEPT ![w] = NotServed]
    /\ locals' = [locals EXCEPT ![frame(w)] = <<>>]
    /\ UNCHANGED <<flask, model, exchange, mirror>>

NextDet ==
    \E w \in Workers :
        \/ T_Home(w)
        \/ T_HealthCheck(w)
        \/ T_AnalyzeSentiment(w)
        \/ T_AnalyzeSentimentGet(w)
        \/ T_Classify(w)
        \/ T_Respond(w)

SpecDet == InitDet /\ [][NextDet]_vars

(***************************************************************************)
(* Properties.                                                             *)
(***************************************************************************)
Route == exchange.request.route
Resp(f) == exchange.served[f].resp
Calls(f) == exchange.served[f].calls
OnAnalyze == Route \in {"POST /analyze", "GET /analyze"}

\* a str with a character that is not whitespace
NonBlank(t) == \E i \in 1..Len(t) : t[i] \notin Whitespace
Blank(t) == ~NonBlank(t)

\* m / 10^4 is the score num / ScoreDen rounded to 4 decimal digits: no
\* multiple of 10^-4 is nearer
RoundedTo4(num, m) ==
    LET a == m * ScoreDen
        b == num * Scale
    IN IF a >= b THEN 2 * (a - b) <= ScoreDen ELSE 2 * (b - a) <= ScoreDen

\* a JSON document without a text field, as the spec words it
LacksTextField(d) ==
    ~(d.type = "dict" /\ \E i \in 1..Len(d.fields) : d.fields[i].key = TextKey)

\* a JSON document that is null, false, 0 or empty, or a str, list or dict
\* that does not contain 'text'
EmptyOrWithoutText(d) ==
    \/ d.type = "null"
    \/ d.type \in {"bool", "number"} /\ d.num = 0
    \/ d.type = "string" /\ ~IsSubstring(TextKey, d.chars)
    \/ d.type = "list" /\ \A i \in 1..Len(d.items) : d.items[i] # JStr(TextKey)
    \/ d.type = "dict" /\ \A i \in 1..Len(d.fields) : d.fields[i].key # TextKey

Is400(f, msg) == Resp(f) = Response(400, ErrorBody(msg))
Is500(f, msg) == Resp(f) = Response(500, ErrorBody(MsgWrapper \o msg))

\* C1 as stated: every POST /analyze whose body is absent, is not valid JSON
\* or is JSON without a text field is answered 400 with the missing-key
\* message, and the classifier is not called.
C1_AsStated ==
    \A f \in Files :
        (/\ Route = "POST /analyze"
         /\ \/ exchange.request.body.kind \in {"absent", "malformed"}
            \/ LacksTextField(exchange.request.body.doc))
        => Is400(f, MsgNoTextKey) /\ Calls(f) = <<>>

\* C1, amended: a POST /analyze whose body get_json() returns as a value that
\* is null, false, 0 or empty, or a str, list or dict not containing 'text'
\* (a request without a JSON body counts on Flask before 2.1, where get_json()
\* returns None for it), is answered 400 with the missing-key message without
\* a classifier call; a body that is not valid JSON is answered 500.
C1_MissingText ==
    \A f \in Files :
        Route = "POST /analyze" =>
            LET b == exchange.request.body
            IN /\ (\/ b.kind = "json" /\ EmptyOrWithoutText(b.doc)
                   \/ b.kind = "absent" /\ flask = "flask<2.1")
                  => Is400(f, MsgNoTextKey) /\ Calls(f) = <<>>
               /\ b.kind = "malformed" => Resp(f).status = 500 /\ Calls(f) = <<>>

C1_Witness ==
    /\ Route = "POST /analyze"
    /\ exchange.request.body = JsonBody(DocDict(<<Field(OtherKey, JStr(<<"a">>))>>))
    /\ Is400("app.py", MsgNoTextKey)

\* the scores of a response are those of the classifier's results, rounded
ScoresRounded(f) ==
    LET got == Resp(f).body.sentiment_results
    IN /\ Len(got) = Len(exchange.oracle.results)
       /\ \A i \in 1..Len(got) : RoundedTo4(exchange.oracle.results[i].score, got[i].score)

\* the request is a POST /analyze with body {"text": t} for a str t
PostsText == Route = "POST /analyze" /\ HasSubject(exchange.request)

\* C2 as stated, granted a classifier that returns a non-empty sequence:
\* every POST /analyze with body {"text": t}, t a non-empty string, is
\* answered 200 with a non-empty sentiment_results whose scores are rounded
\* to 4 decimal places.
C2_AsStated ==
    \A f \in Files :
        (/\ PostsText
         /\ Subject(exchange.request) # <<>>
         /\ exchange.oracle.kind = "results"
         /\ exchange.oracle.results # <<>>)
        => /\ Resp(f).status = 200
           /\ Resp(f).body.sentiment_results # <<>>
           /\ ScoresRounded(f)

\* C2, amended: every POST /analyze with body {"text": t}, t a string that is
\* non-empty after trimming, for which the classifier returns a non-empty
\* sequence without raising, is answered 200 with a non-empty
\* sentiment_results whose scores are rounded to 4 decimal places.
C2_NonBlankText ==
    \A f \in Files :
        (/\ PostsText
         /\ NonBlank(Subject(exchange.request))
         /\ exchange.oracle.kind = "results"
         /\ exchange.oracle.results # <<>>)
        => /\ Resp(f).status = 200
           /\ Resp(f).body.sentiment_results # <<>>
           /\ ScoresRounded(f)

C2_Witness ==
    /\ PostsText
    /\ Subject(exchange.request) = <<"a">>
    /\ exchange.oracle = Returns(<<[label |-> "positive", score |-> 3]>>)
    /\ Resp("app.py").status = 200
    /\ Resp("app.py").body.sentiment_results = <<[label |-> "positive", score |-> 469]>>

\* C3: a request to /analyze whose text is empty after trimming (on GET also
\* a missing text parameter) is answered 400 with the route's message, and
\* every classifier call has an argument that is non-empty after trimming.
C3_BlankNeverClassified ==
    \A f \in Files :
        /\ (PostsText /\ Blank(Subject(exchange.request)))
           => Is400(f, MsgEmpty) /\ Calls(f) = <<>>
        /\ (Route = "GET /analyze" /\ Blank(Subject(exchange.request)))
           => Is400(f, MsgNoTextParam) /\ Calls(f) = <<>>
        /\ \A i \in 1..Len(Calls(f)) : NonBlank(Calls(f)[i])

C3_Witness ==
    /\ PostsText
    /\ Subject(exchange.request) = <<" ", " ">>
    /\ Is400("app.py", MsgEmpty)
    /\ exchange.oracle.kind = "results"

C3_WitnessGet ==
    /\ Route = "GET /analyze"
    /\ ~exchange.request.query.given
    /\ Is400("main.py", MsgNoTextParam)

\* C4: when a request to /analyze passes validation and the classifier
\* returns R, the classifier was called once with the raw text and the
\* response is 200 with input_text the raw text and one entry per element of
\* R in order, the label unchanged and the score rounded to 4 digits.
C4_Success ==
    \A f \in Files :
        (/\ OnAnalyze
         /\ HasSubject(exchange.request)
         /\ NonBlank(Subject(exchange.request))
         /\ exchange.oracle.kind = "results")
        => LET t == Subject(exchange.request)
               R == exchange.oracle.results
               got == Resp(f).body.sentiment_results
           IN /\ Calls(f) = <<t>>
              /\ Resp(f).status = 200
              /\ Resp(f).body.keys = {"input_text", "sentiment_results"}
              /\ Resp(f).body.input_text = t
              /\ Len(got) = Len(R)
              /\ \A i \in 1..Len(R) :
                    /\ got[i].label = R[i].label
                    /\ RoundedTo4(R[i].score, got[i].score)

C4_Witness ==
    /\ Route = "GET /analyze"
    /\ Subject(exchange.request) = <<" ", "a">>
    /\ exchange.oracle = Returns(<<[label |-> "negative", score |-> 6],
                                   [label |-> "positive", score |-> 1]>>)
    /\ Resp("app.py") = Response(200, AnalysisBody(<<" ", "a">>,
            <<[label |-> "negative", score |-> 938], [label |-> "positive", score |-> 156]>>))

\* C5: on both /analyze routes an exception raised while parsing, validating
\* or classifying is answered 500 with the wrapper followed by the exception's
\* message, and every request gets a response: malformed JSON and a raising
\* classifier among them.
C5_ExceptionsBecome500 ==
    \A f \in Files :
        OnAnalyze =>
            /\ Resp(f) # NoResponse
            /\ exchange.served[f].error # NoError
               => Is500(f, exchange.served[f].error.msg)
            /\ (Route = "POST /analyze" /\ exchange.request.body.kind = "malformed")
               => Is500(f, BadRequest.msg)
            /\ (Calls(f) # <<>> /\ exchange.oracle.kind = "raise")
               => Is500(f, exchange.oracle.error.msg)

C5_Witness ==
    /\ Route = "POST /analyze"
    /\ exchange.request.body.kind = "malformed"
    /\ Is500("app.py", BadRequest.msg)

C5_WitnessClassifier ==
    /\ Route = "GET /analyze"
    /\ exchange.oracle.kind = "raise"
    /\ Calls("app.py") = <<<<"a">>>>
    /\ Is500("app.py", "index out of range in self")

\* C6: for every text and classifier outcome, GET /analyze?text=t and POST
\* /analyze {"text": t} give the same status and, when t is non-empty after
\* trimming, the same body.
C6_GetMatchesPost ==
    \A f \in Files :
        mirror # NoExchange =>
            /\ mirror.oracle = exchange.oracle
            /\ Subject(mirror.request) = Subject(exchange.request)
            /\ mirror.request.route # Route
            /\ mirror.served[f].resp.status = Resp(f).status
            /\ NonBlank(Subject(exchange.request)) => mirror.served[f].resp = Resp(f)

C6_Witness ==
    /\ mirror # NoExchange
    /\ mirror.request.route = "POST /analyze"
    /\ Route = "GET /analyze"
    /\ Subject(exchange.request) = <<"a", " ">>
    /\ Resp("app.py").status = 200
    /\ Len(Resp("app.py").body.sentiment_results) = 2

\* C7: a response of either /analyze route has status 200, 400 or 500; its
\* body is an object with the one member error, a string, exactly when the
\* status is 400 or 500, and a 200 body has no error member.
C7_ErrorShape ==
    \A f \in Files :
        OnAnalyze =>
            LET r == Resp(f)
                single == /\ r.body.keys = {"error"}
                          /\ \E msg \in {p[2] : p \in r.body.strs} :
                                r.body.strs = {<<"error", msg>>}
            IN /\ r.status \in {200, 400, 500}
               /\ single <=> r.status \in {400, 500}
               /\ r.status = 200 => "error" \notin r.body.keys

C7_Witness ==
    /\ Route = "POST /analyze"
    /\ Resp("app.py").status = 500
    /\ Resp("app.py").body.keys = {"error"}
    /\ exchange.served["app.py"].error.cls = "AttributeError"

\* C9: GET /health is answered 200 with status healthy, the service name and
\* the model identifier whatever the classifier would do, and does not call
\* the classifier.
C9_HealthAlwaysHealthy ==
    \A f \in Files :
        Route = "GET /health" =>
            /\ Resp(f).status = 200
            /\ Resp(f).body.keys = {"status", "service", "model"}
            /\ Resp(f).body.strs = {<<"status", "healthy">>,
                                    <<"service", "Sentiment Analysis API">>,
                                    <<"model", ModelId>>}
            /\ Calls(f) = <<>>

C9_Witness ==
    /\ Route = "GET /health"
    /\ model = BrokenModel
    /\ exchange.oracle.kind = "raise"
    /\ Resp("app.py").status = 200

\* the members of a body outside usage_examples
Outside(strs) ==
    {p \in strs : p[1] \notin {"usage_examples.POST", "usage_examples.GET",
                               "usage_examples.health"}}

\* C10 as stated: app.py and main.py answer every request to any of the four
\* routes with the same status and the same body.
C10_AsStated == exchange.served["app.py"].resp = exchange.served["main.py"].resp

\* C10, amended: app.py and main.py answer every request to POST /analyze,
\* GET /analyze and GET /health with the same status and body (calling the
\* classifier alike); to GET / both answer 200 with the same document except
\* for the three usage_examples strings, which name different hosts.
C10_SameService ==
    LET a == exchange.served["app.py"]
        m == exchange.served["main.py"]
    IN /\ Route # "GET /" => a.resp = m.resp /\ a.calls = m.calls
       /\ Route = "GET /" =>
            /\ a.resp.status = 200 /\ m.resp.status = 200
            /\ a.resp.body.keys = m.resp.body.keys
            /\ Outside(a.resp.body.strs) = Outside(m.resp.body.strs)
            /\ {p[1] : p \in a.resp.body.strs} = {p[1] : p \in m.resp.body.strs}

C10_Witness ==
    /\ PostsText
    /\ Subject(exchange.request) = <<"a", " ">>
    /\ Resp("main.py").status = 200
    /\ Resp("main.py").body.input_text = <<"a", " ">>

\* C8: under a deterministic classifier the response to a POST /analyze is a
\* function of the request: two threads that have served the same POST
\* /analyze request, whatever ran before, between or alongside, hold the same
\* response and so the same sentiment_results.
C8_SameRequestSameResponse ==
    \A v, w \in Workers :
        (/\ pc[v] = "done" /\ pc[w] = "done"
         /\ req[v].route = "POST /analyze"
         /\ req[v] = req[w])
        => /\ out[v].resp = out[w].resp
           /\ out[v].resp.body.sentiment_results = out[w].resp.body.sentiment_results

C8_Witness ==
    /\ pc["t1"] = "done" /\ pc["t2"] = "done"
    /\ req["t1"] = Request("POST /analyze", TextBody(<<"a">>), NoQuery)
    /\ req["t2"] = req["t1"]
    /\ out["t1"].resp.status = 200
    /\ out["t2"].resp.body.sentiment_results = <<[label |-> "positive", score |-> 469]>>
=============================================================================
